---- MODULE Spec2Model ----
(***************************************************************************)
(* Whole-pattern-fit model components of py4DSTEM                          *)
(* (py4DSTEM/process/wholepatternfit/wp_models.py).                        *)
(*                                                                         *)
(* Real numbers are fixed-point with two decimals: the integer n stands    *)
(* for n/100, so 100 is 1.0, 1 is 0.01, 314 is pi.  Parameter objects live *)
(* in a heap (a sequence); a Parameter's identity is its index in the      *)
(* heap, so two dict entries holding the same index hold the same object.  *)
(***************************************************************************)
EXTENDS Integers, Sequences, FiniteSets, TLC

VARIABLES heap,     \* the Parameter objects created so far, by identity
          models,   \* the model objects, in registration order; models[1] is the coordinate model
          built,    \* built[i]: the arguments models[i] was constructed with
          made,     \* outcome of the last stand-alone Parameter(...) call
          ready,    \* TRUE once the offsets have been assigned
          x,        \* the flat parameter vector, indexed by offset
          DP,       \* the working pattern
          J,        \* the working Jacobian, J[column][pixel]
          called    \* the calls since the buffers were last zeroed, with their outcomes

vars == <<heap, models, built, made, ready, x, DP, J, called>>

(***************************************************************************)
(* Bounds of the model.                                                    *)
(***************************************************************************)
Q_Nx == 2
Q_Ny == 2
MaxModels == 2

(***************************************************************************)
(* Sentinels of the program.                                               *)
(***************************************************************************)
NaN == -1
PosInf == 1000000
NegInf == -1000000
Pi == 314

Pixels == (0 .. Q_Nx - 1) \X (0 .. Q_Ny - 1)
xArray(p) == 100 * p[1]
yArray(p) == 100 * p[2]
ZeroPattern == [p \in Pixels |-> 0]

\* an array expression is computed once, when it is assigned
Array(f) == f @@ <<>>

Min(a, b) == IF a <= b THEN a ELSE b
Max(a, b) == IF a >= b THEN a ELSE b

RECURSIVE SqrtSearch(_, _, _)
SqrtSearch(n, lo, hi) ==
    IF lo >= hi THEN lo
    ELSE LET mid == (lo + hi + 1) \div 2
         IN  IF mid * mid <= n THEN SqrtSearch(n, mid, hi)
             ELSE SqrtSearch(n, lo, mid - 1)

\* np.sqrt of a sum of squares of two-decimal numbers: the root of n, rounded down
Sqrt(n) == SqrtSearch(n, 0, Min(n, 46340))

\* exp(-k) for whole k, to four decimals
ExpNegWhole(k) ==
    CASE k = 0 -> 10000 [] k = 1 -> 3679 [] k = 2 -> 1353 [] k = 3 -> 498
      [] k = 4 -> 183   [] k = 5 -> 67   [] k = 6 -> 25   [] k = 7 -> 9
      [] k = 8 -> 3     [] k = 9 -> 1    [] OTHER -> 0

\* exp(-j/10) for j in 0..9, to two decimals
ExpNegTenth(j) ==
    CASE j = 0 -> 100 [] j = 1 -> 90 [] j = 2 -> 82 [] j = 3 -> 74 [] j = 4 -> 67
      [] j = 5 -> 61  [] j = 6 -> 55 [] j = 7 -> 50 [] j = 8 -> 45 [] OTHER -> 41

\* exp(-a) for a >= 0, to two decimals
ExpNeg(a) == (ExpNegWhole(a \div 100) * ExpNegTenth((a % 100) \div 10)) \div 10000

\* np.exp(a) as the ratio n/d, so that large exponents need no large numbers
Exp(a) == IF a >= 0 THEN [n |-> 100, d |-> ExpNeg(a)] ELSE [n |-> ExpNeg(-a), d |-> 100]

(***************************************************************************)
(* Parameter                                                               *)
(***************************************************************************)
None == <<>>
Some(v) == <<v>>

set_params(initial_value, lower_bound, upper_bound) ==
    [initial_value |-> initial_value,
     lower_bound |-> IF lower_bound # None THEN lower_bound[1] ELSE NegInf,
     upper_bound |-> IF upper_bound # None THEN upper_bound[1] ELSE PosInf]

\* a slip that would take a (value, tolerance) pair for bounds around zero
ParameterToleranceAsBounds(a) ==
    IF a.iter
    THEN LET items == IF Len(a.items) = 2
                      THEN <<a.items[1], -a.items[2], a.items[2]>>
                      ELSE a.items
         IN  IF Len(items) = 3
             THEN [ok |-> TRUE, err |-> "",
                   p |-> [offset |-> NaN] @@ set_params(items[1], Some(items[2]), Some(items[3]))]
             ELSE [ok |-> FALSE, err |-> "TypeError", p |-> <<>>]
    ELSE [ok |-> TRUE, err |-> "",
          p |-> [offset |-> NaN] @@ set_params(a.v, a.lb, a.ub)]

\* Parameter.__init__: a is [iter |-> TRUE, items |-> <<...>>] for an iterable
\* first argument, [iter |-> FALSE, v, lb, ub] otherwise
Parameter(a) ==
    IF a.iter
    THEN LET items == IF Len(a.items) = 2
                      THEN <<a.items[1], a.items[1] - a.items[2], a.items[1] + a.items[2]>>
                      ELSE a.items
         IN  IF Len(items) = 3
             THEN [ok |-> TRUE, err |-> "",
                   p |-> [offset |-> NaN] @@ set_params(items[1], Some(items[2]), Some(items[3]))]
             ELSE [ok |-> FALSE, err |-> "TypeError", p |-> <<>>]
    ELSE [ok |-> TRUE, err |-> "",
          p |-> [offset |-> NaN] @@ set_params(a.v, a.lb, a.ub)]

Scalar(v) == [iter |-> FALSE, v |-> v, lb |-> None, ub |-> None, items |-> <<>>]
Triple(v, lo, hi) == [iter |-> FALSE, v |-> v, lb |-> Some(lo), ub |-> Some(hi), items |-> <<>>]
Iter(items) == [iter |-> TRUE, v |-> 0, lb |-> None, ub |-> None, items |-> items]

\* allocate the object Parameter(a) (a never fails here)
New(h, a) == Append(h, Parameter(a).p)

(***************************************************************************)
(* The params dict: insertion-ordered, a key assigned twice keeps its      *)
(* place and takes the new value.                                          *)
(***************************************************************************)
Key(n) == [n |-> n, u |-> 0, v |-> 0]
IntensityKey(u, v) == [n |-> "Intensity", u |-> u, v |-> v]
PhaseKey(u, v) == [n |-> "Phase", u |-> u, v |-> v]

HasKey(d, k) == \E i \in 1 .. Len(d) : d[i].key = k
DictSet(d, k, ref) ==
    IF HasKey(d, k)
    THEN [i \in 1 .. Len(d) |-> IF d[i].key = k THEN [key |-> k, ref |-> ref] ELSE d[i]]
    ELSE Append(d, [key |-> k, ref |-> ref])
DictGet(d, k) == (CHOOSE i \in 1 .. Len(d) : d[i].key = k)
Ref(d, k) == d[DictGet(d, k)].ref
Refs(d) == {d[i].ref : i \in 1 .. Len(d)}

(***************************************************************************)
(* WPFModelPrototype                                                       *)
(***************************************************************************)
\* the attributes each class defines or inherits (instance attributes that
\* a constructor binds are added by that constructor)
ClassAttrs(kind) ==
    CASE kind = "_BaseModel" -> {"func", "jacobian"}
      [] kind = "DCBackground" -> {"func", "jacobian"}
      [] kind = "GaussianBackground" -> {"func", "jacobian"}
      [] kind = "GaussianRing" -> {"func", "global_center_func", "global_center_jacobian"}
      [] kind = "SyntheticDiskLattice" -> {"func", "jacobian"}
      [] kind = "ComplexOverlapKernelDiskLattice" ->
             {"func", "global_center_func", "local_center_func"}
      [] kind = "KernelDiskLattice" -> {"func", "global_center_func", "local_center_func"}

\* the function that self.func resolves to
FuncOf(kind) ==
    CASE kind \in {"_BaseModel", "DCBackground", "GaussianBackground", "SyntheticDiskLattice"}
             -> kind
      [] kind = "GaussianRing" -> "WPFModelPrototype"
      [] OTHER -> "global_center_func"

NoLattice ==
    [u_inds |-> <<>>, v_inds |-> <<>>, disk_radius |-> 0, disk_width |-> 0,
     refine_radius |-> FALSE, refine_width |-> FALSE, probe_kernel |-> ZeroPattern]

\* WPFModelPrototype.__init__, on an object whose other attributes are in self
Prototype(kind, params, model_type, self) ==
    [kind |-> kind, params |-> params, nParams |-> Len(params),
     hasJacobian |-> "jacobian" \in ClassAttrs(kind),
     model_type |-> model_type, func |-> FuncOf(kind)] @@ self

(***************************************************************************)
(* The fitting object the models are built for: its coordinate model is    *)
(* the first registered model, its static data hold the pattern's shape    *)
(* and the initial global center.                                          *)
(***************************************************************************)
coordinate_model(ms) == ms[1]
global_x0(h, ms) == h[Ref(coordinate_model(ms).params, Key("x center"))].initial_value
global_y0(h, ms) == h[Ref(coordinate_model(ms).params, Key("y center"))].initial_value

(***************************************************************************)
(* Constructors.  Each takes the heap h and gives the heap after it and    *)
(* the new model object.                                                   *)
(***************************************************************************)
BaseModel(h, x0, y0) ==
    LET h1 == New(h, Scalar(x0))
        h2 == New(h1, Scalar(y0))
        params == <<[key |-> Key("x center"), ref |-> Len(h1)],
                    [key |-> Key("y center"), ref |-> Len(h2)]>>
    IN  [heap |-> h2, model |-> Prototype("_BaseModel", params, "DUMMY", NoLattice)]

NewDCBackground(h, background_value) ==
    LET h1 == New(h, Scalar(background_value))
        params == <<[key |-> Key("DC Level"), ref |-> Len(h1)]>>
    IN  [heap |-> h1, model |-> Prototype("DCBackground", params, "BACKGROUND", NoLattice)]

\* a slip that would give the component copies of the global center Parameters
CenterCopied(h, ms, params) ==
    LET h1 == New(h, Scalar(global_x0(h, ms)))
        h2 == New(h1, Scalar(global_y0(h, ms)))
    IN  [heap |-> h2,
         params |-> DictSet(DictSet(params, Key("x center"), Len(h1)),
                            Key("y center"), Len(h2))]

\* the x center / y center entries: the coordinate model's own objects, or new ones
CenterShared(h, ms, params) ==
    [heap |-> h,
     params |-> DictSet(DictSet(params, Key("x center"),
                                Ref(coordinate_model(ms).params, Key("x center"))),
                        Key("y center"), Ref(coordinate_model(ms).params, Key("y center")))]

CenterLocal(h, params, x0, y0) ==
    LET h1 == New(h, Scalar(x0))
        h2 == New(h1, Scalar(y0))
    IN  [heap |-> h2,
         params |-> DictSet(DictSet(params, Key("x center"), Len(h1)),
                            Key("y center"), Len(h2))]

Center(h, ms, params, global_center, x0, y0) ==
    IF global_center THEN CenterShared(h, ms, params) ELSE CenterLocal(h, params, x0, y0)

NewGaussianBackground(h, ms, a) ==
    LET h1 == New(h, Scalar(a.sigma))
        h2 == New(h1, Scalar(a.intensity))
        p2 == <<[key |-> Key("sigma"), ref |-> Len(h1)],
                [key |-> Key("intensity"), ref |-> Len(h2)]>>
        c  == Center(h2, ms, p2, a.global_center, a.x0, a.y0)
    IN  [heap |-> c.heap,
         model |-> Prototype("GaussianBackground", c.params, "BACKGROUND", NoLattice)]

NewGaussianRing(h, ms, a) ==
    LET h1 == New(h, Scalar(a.radius))
        h2 == New(h1, Scalar(a.sigma))
        h3 == New(h2, Scalar(a.intensity))
        p3 == <<[key |-> Key("radius"), ref |-> Len(h1)],
                [key |-> Key("sigma"), ref |-> Len(h2)],
                [key |-> Key("intensity"), ref |-> Len(h3)]>>
        c  == Center(h3, ms, p3, a.global_center, a.x0, a.y0)
    IN  [heap |-> c.heap,
         model |-> Prototype("GaussianRing", c.params, "AMORPHOUS", NoLattice)]

(***************************************************************************)
(* Lattices                                                                *)
(***************************************************************************)
\* np.mgrid[-u_max : u_max + 1, -v_max : v_max + 1], both raveled: u slowest
RECURSIVE Range(_, _)
Range(lo, hi) == IF lo > hi THEN <<>> ELSE <<lo>> \o Range(lo + 1, hi)

RECURSIVE Concat(_)
Concat(ss) == IF ss = <<>> THEN <<>> ELSE Head(ss) \o Concat(Tail(ss))

UVGrid(u_max, v_max) ==
    LET us == Range(-u_max, u_max)
        vs == Range(-v_max, v_max)
    IN  Concat([i \in 1 .. Len(us) |-> [j \in 1 .. Len(vs) |-> <<us[i], vs[j]>>]])

InList(pair, list) == \E i \in 1 .. Len(list) : list[i] = pair

\* (x < 0) or (x > Q_Nx) or (y < 0) or (y > Q_Ny)
Outside(xx, yy) == (xx < 0) \/ (xx > 100 * Q_Nx) \/ (yy < 0) \/ (yy > 100 * Q_Ny)

\* a slip that would leave the direct beam's phase free
PeakParamsFreePhase(h, params, u, v, intensity_0, phase) ==
    LET h1 == New(h, Scalar(intensity_0))
        p1 == DictSet(params, IntensityKey(u, v), Len(h1))
        h2 == New(h1, Triple(1, -Pi, Pi))
    IN  [heap |-> h2, params |-> DictSet(p1, PhaseKey(u, v), Len(h2))]

\* the Parameters one retained peak gets, in the order the code inserts them
PeakParams(h, params, u, v, intensity_0, phase) ==
    LET h1 == New(h, Scalar(intensity_0))
        p1 == DictSet(params, IntensityKey(u, v), Len(h1))
    IN  IF ~phase THEN [heap |-> h1, params |-> p1]
        ELSE LET h2 == IF u = 0 /\ v = 0 THEN New(h1, Triple(0, 0, 0))
                       ELSE New(h1, Triple(1, -Pi, Pi))
             IN  [heap |-> h2, params |-> DictSet(p1, PhaseKey(u, v), Len(h2))]

\* one pass of the pruning loop over grid[i..]; acc is [heap, params, keep]
RECURSIVE PeakLoop(_, _, _, _)
PeakLoop(grid, i, acc, c) ==
    IF i > Len(grid) THEN acc
    ELSE LET u  == grid[i][1]
             v  == grid[i][2]
             xx == c.x0 + (u * acc.heap[Ref(acc.params, Key("ux"))].initial_value)
                        + (v * acc.heap[Ref(acc.params, Key("vx"))].initial_value)
             yy == c.y0 + (u * acc.heap[Ref(acc.params, Key("uy"))].initial_value)
                        + (v * acc.heap[Ref(acc.params, Key("vy"))].initial_value)
         IN  IF InList(<<u, v>>, c.exclude_indices)
             THEN PeakLoop(grid, i + 1, [acc EXCEPT !.keep = Append(@, FALSE)], c)
             ELSE IF Outside(xx, yy)
             THEN PeakLoop(grid, i + 1, [acc EXCEPT !.keep = Append(@, FALSE)], c)
             ELSE LET n == PeakParams(acc.heap, acc.params, u, v, c.intensity_0, c.phase)
                  IN  PeakLoop(grid, i + 1,
                               [heap |-> n.heap, params |-> n.params,
                                keep |-> Append(acc.keep, TRUE)], c)

\* u_inds[~delete_mask]
Kept(grid, keep) == SelectSeq([i \in 1 .. Len(grid) |-> <<grid[i], keep[i]>>],
                              LAMBDA e : e[2])

LatticeVectors(h, params, a) ==
    LET h1 == New(h, Scalar(a.ux))
        h2 == New(h1, Scalar(a.uy))
        h3 == New(h2, Scalar(a.vx))
        h4 == New(h3, Scalar(a.vy))
    IN  [heap |-> h4,
         params |-> DictSet(DictSet(DictSet(DictSet(params, Key("ux"), Len(h1)),
                                            Key("uy"), Len(h2)),
                                    Key("vx"), Len(h3)),
                            Key("vy"), Len(h4))]

\* the include_indices branch: one assignment params[...] = Parameter(intensity_0) per entry
RECURSIVE IncludeLoop(_, _, _, _)
IncludeLoop(include, i, acc, intensity_0) ==
    IF i > Len(include) THEN acc
    ELSE LET h1 == New(acc.heap, Scalar(intensity_0))
         IN  IncludeLoop(include, i + 1,
                         [heap |-> h1,
                          params |-> DictSet(acc.params,
                                             IntensityKey(include[i][1], include[i][2]),
                                             Len(h1))],
                         intensity_0)

Column(pairs, k) == [i \in 1 .. Len(pairs) |-> pairs[i][k]]

Refinement(h, params, a) ==
    LET r == IF a.refine_radius
             THEN [heap |-> New(h, Scalar(a.disk_radius)),
                   params |-> DictSet(params, Key("disk radius"), Len(h) + 1)]
             ELSE [heap |-> h, params |-> params]
    IN  IF a.refine_width
        THEN [heap |-> New(r.heap, Scalar(a.disk_width)),
              params |-> DictSet(r.params, Key("edge width"), Len(r.heap) + 1)]
        ELSE r

NewSyntheticDiskLattice(h, ms, a) ==
    LET c    == Center(h, ms, <<>>, a.global_center, a.x0, a.y0)
        x0   == c.heap[Ref(c.params, Key("x center"))].initial_value
        y0   == c.heap[Ref(c.params, Key("y center"))].initial_value
        lv   == LatticeVectors(c.heap, c.params, a)
        grid == UVGrid(a.u_max, a.v_max)
        loop == IF a.include_indices = None
                THEN PeakLoop(grid, 1, [heap |-> lv.heap, params |-> lv.params, keep |-> <<>>],
                              [x0 |-> x0, y0 |-> y0, exclude_indices |-> a.exclude_indices,
                               intensity_0 |-> a.intensity_0, phase |-> FALSE])
                ELSE IncludeLoop(a.include_indices[1], 1,
                                 [heap |-> lv.heap, params |-> lv.params], a.intensity_0)
        inds == IF a.include_indices = None
                THEN Column(Kept(grid, loop.keep), 1)
                ELSE a.include_indices[1]
        r    == Refinement(loop.heap, loop.params, a)
    IN  [heap |-> r.heap,
         model |-> Prototype("SyntheticDiskLattice", r.params, "LATTICE",
                             [u_inds |-> Column(inds, 1), v_inds |-> Column(inds, 2),
                              disk_radius |-> a.disk_radius, disk_width |-> a.disk_width,
                              refine_radius |-> a.refine_radius,
                              refine_width |-> a.refine_width,
                              probe_kernel |-> ZeroPattern])]

KernelLattice(kind, h, ms, a, phase) ==
    LET lv   == LatticeVectors(h, <<>>, a)
        grid == UVGrid(a.u_max, a.v_max)
        loop == PeakLoop(grid, 1, [heap |-> lv.heap, params |-> lv.params, keep |-> <<>>],
                         [x0 |-> global_x0(h, ms), y0 |-> global_y0(h, ms),
                          exclude_indices |-> a.exclude_indices,
                          intensity_0 |-> a.intensity_0, phase |-> phase])
        inds == Column(Kept(grid, loop.keep), 1)
    IN  [heap |-> loop.heap,
         model |-> Prototype(kind, loop.params, "LATTICE",
                             [u_inds |-> Column(inds, 1), v_inds |-> Column(inds, 2),
                              disk_radius |-> 0, disk_width |-> 0,
                              refine_radius |-> FALSE, refine_width |-> FALSE,
                              probe_kernel |-> a.probe_kernel])]

NewComplexOverlapKernelDiskLattice(h, ms, a) ==
    KernelLattice("ComplexOverlapKernelDiskLattice", h, ms, a, TRUE)

NewKernelDiskLattice(h, ms, a) ==
    KernelLattice("KernelDiskLattice", h, ms, a, FALSE)

(***************************************************************************)
(* Evaluation.  h is the heap, m a model object, xv the flat parameter     *)
(* vector, dp the pattern and j the Jacobian the call is given.            *)
(***************************************************************************)
Off(h, m, k) == h[Ref(m.params, k)].offset
Val(h, m, xv, k) == xv[Off(h, m, k)]
OwnOffsets(h, m) == {h[r].offset : r \in Refs(m.params)}

\* the distance helper of the fitting object: the distance of every pixel
\* from the point whose coordinates are the values of the Parameters px, py
get_distance(h, xv, px, py) ==
    Array([p \in Pixels |-> Sqrt((xArray(p) - xv[h[px].offset]) * (xArray(p) - xv[h[px].offset])
                         + (yArray(p) - xv[h[py].offset]) * (yArray(p) - xv[h[py].offset]))])

\* the keyword context of a call: the current global center
kw_global_x0(h, ms, xv) == xv[Off(h, coordinate_model(ms), Key("x center"))]
kw_global_y0(h, ms, xv) == xv[Off(h, coordinate_model(ms), Key("y center"))]

Ok(dp, reads) == [res |-> "ok", DP |-> dp, reads |-> reads]
Raise(err, dp, reads) == [res |-> err, DP |-> dp, reads |-> reads]

\* a slip that would overwrite the pattern: DP = c
Overwrite(dp, c) == c

\* DP += c
AddInto(dp, c) == [p \in Pixels |-> dp[p] + c[p]]

WPFModelPrototype_func(dp) == Raise("NotImplementedError", dp, {})

BaseModel_func(dp) == Ok(dp, {})

DCBackground_func(h, m, xv, dp) ==
    Ok(AddInto(dp, [p \in Pixels |-> Val(h, m, xv, Key("DC Level"))]),
       {Off(h, m, Key("DC Level"))})

\* np.exp(r**2 / (-2 * sigma**2)), to two decimals
GaussExp(r, sigma) == ExpNeg((100 * r * r) \div (2 * sigma * sigma))

GaussianBackground_func(h, m, xv, dp) ==
    LET sigma == Val(h, m, xv, Key("sigma"))
        level == Val(h, m, xv, Key("intensity"))
        r     == get_distance(h, xv, Ref(m.params, Key("x center")),
                              Ref(m.params, Key("y center")))
    IN  Ok(AddInto(dp, [p \in Pixels |-> (level * GaussExp(r[p], sigma)) \div 100]),
           {Off(h, m, k) : k \in {Key("sigma"), Key("intensity"),
                                  Key("x center"), Key("y center")}})

\* GaussianRing.global_center_func: params["level"] is no key of the dict
GaussianRing_global_center_func(h, m, xv, dp) ==
    IF HasKey(m.params, Key("level"))
    THEN Raise("NameError", dp, {Off(h, m, k) : k \in {Key("radius"), Key("sigma"), Key("level")}})
    ELSE Raise("KeyError", dp, {Off(h, m, k) : k \in {Key("radius"), Key("sigma")}})

disk_radius_of(h, m, xv) ==
    IF m.refine_radius THEN Val(h, m, xv, Key("disk radius")) ELSE m.disk_radius
disk_width_of(h, m, xv) ==
    IF m.refine_width THEN Val(h, m, xv, Key("edge width")) ELSE m.disk_width

\* the position of peak (u, v)
PeakX(x0, ux, vx, u, v) == x0 + (u * ux) + (v * vx)

Dist(p, xpos, ypos) ==
    Sqrt((xArray(p) - xpos) * (xArray(p) - xpos) + (yArray(p) - ypos) * (yArray(p) - ypos))

\* 4 * (r - disk_radius) / disk_width
EdgeArg(r, radius, width) == (400 * (r - radius)) \div width

\* np.minimum(arg, 20): what func passes to np.exp
ClampedArg(arg) == Min(arg, 2000)

\* intensity / (1.0 + np.exp(np.minimum(arg, 20)))
Logistic(intensity, arg) ==
    LET e == Exp(ClampedArg(arg))
    IN  (intensity * e.d) \div (e.d + e.n)

RECURSIVE DiskLoop(_, _, _, _, _)
DiskLoop(h, m, xv, i, dp) ==
    IF i > Len(m.u_inds) THEN dp
    ELSE LET u    == m.u_inds[i]
             v    == m.v_inds[i]
             xpos == PeakX(Val(h, m, xv, Key("x center")), Val(h, m, xv, Key("ux")),
                           Val(h, m, xv, Key("vx")), u, v)
             ypos == PeakX(Val(h, m, xv, Key("y center")), Val(h, m, xv, Key("uy")),
                           Val(h, m, xv, Key("vy")), u, v)
             int  == Val(h, m, xv, IntensityKey(u, v))
             c    == [p \in Pixels |->
                        Logistic(int, EdgeArg(Dist(p, xpos, ypos), disk_radius_of(h, m, xv),
                                              disk_width_of(h, m, xv)))]
         IN  DiskLoop(h, m, xv, i + 1, AddInto(dp, c))

SyntheticDiskLattice_func(h, m, xv, dp) ==
    Ok(DiskLoop(h, m, xv, 1, dp),
       {Off(h, m, k) : k \in {Key("x center"), Key("y center"), Key("ux"), Key("uy"),
                              Key("vx"), Key("vy")}}
       \cup (IF m.refine_radius THEN {Off(h, m, Key("disk radius"))} ELSE {})
       \cup (IF m.refine_width THEN {Off(h, m, Key("edge width"))} ELSE {})
       \cup {Off(h, m, IntensityKey(m.u_inds[i], m.v_inds[i])) : i \in 1 .. Len(m.u_inds)})

(***************************************************************************)
(* Kernel lattices.  args is the tuple of positional arguments after DP;   *)
(* Python's args[i] is args[i + 1] here.                                   *)
(***************************************************************************)
Abs(n) == IF n >= 0 THEN n ELSE -n

\* |ifft2(probe_kernelFT * exp(-2j pi (xq x + yq y)))| for a position on a
\* whole pixel: the magnitude of the kernel shifted cyclically by (x, y)
ShiftedAbs(kernel, xx, yy) ==
    Array([p \in Pixels |-> Abs(kernel[<<(p[1] - (xx \div 100)) % Q_Nx,
                                   (p[2] - (yy \div 100)) % Q_Ny>>])])

\* cos and sin of a phase in [-pi, pi], to two decimals
CosSmall(a) == 100 - ((a * a) \div 200) + ((a * a * a * a) \div 24000000)
SinSmall(a) == a - ((a * a * a) \div 60000) + ((((a * a * a) \div 10000) * a * a) \div 1200000)
Cos(a) == IF Abs(a) <= 157 THEN CosSmall(Abs(a)) ELSE -CosSmall(Pi - Abs(a))
Sin(a) == IF Abs(a) <= 157 THEN (IF a >= 0 THEN SinSmall(a) ELSE -SinSmall(-a))
          ELSE (IF a >= 0 THEN SinSmall(Pi - a) ELSE -SinSmall(Pi + a))

RECURSIVE KernelLoop(_, _, _, _)
KernelLoop(m, args, i, dp) ==
    IF i > Len(m.u_inds) THEN Ok(dp, {})
    ELSE IF Len(args) < (i - 1) + 7 THEN Raise("IndexError", dp, {})
    ELSE LET u  == m.u_inds[i]
             v  == m.v_inds[i]
             xx == PeakX(args[1], args[3], args[5], u, v)
             yy == PeakX(args[2], args[4], args[6], u, v)
             k  == ShiftedAbs(m.probe_kernel, xx, yy)
             \* (args[i + 6] * np.abs(...)) ** 2
             c  == [p \in Pixels |->
                      LET a == (args[(i - 1) + 7] * k[p]) \div 100 IN (a * a) \div 100]
         IN  KernelLoop(m, args, i + 1, AddInto(dp, c))

KernelDiskLattice_local_center_func(m, args, dp) ==
    IF Len(args) < 6 THEN Raise("IndexError", dp, {})
    ELSE KernelLoop(m, args, 1, dp)

\* the coherent sum: local is the complex pattern localDP, [re, im] per pixel
RECURSIVE ComplexLoop(_, _, _, _)
ComplexLoop(m, args, i, local) ==
    IF i > Len(m.u_inds) THEN [res |-> "ok", local |-> local]
    ELSE IF Len(args) < 2 * (i - 1) + 8 THEN [res |-> "IndexError", local |-> local]
    ELSE LET u   == m.u_inds[i]
             v   == m.v_inds[i]
             xx  == PeakX(args[1], args[3], args[5], u, v)
             yy  == PeakX(args[2], args[4], args[6], u, v)
             k   == ShiftedAbs(m.probe_kernel, xx, yy)
             amp == args[2 * (i - 1) + 7]
             ph  == args[2 * (i - 1) + 8]
         IN  ComplexLoop(m, args, i + 1,
                         [p \in Pixels |->
                            [re |-> local[p].re + ((amp * Cos(ph) * k[p]) \div 10000),
                             im |-> local[p].im + ((amp * Sin(ph) * k[p]) \div 10000)]])

ComplexOverlapKernelDiskLattice_local_center_func(m, args, dp) ==
    IF Len(args) < 6 THEN Raise("IndexError", dp, {})
    ELSE LET r == ComplexLoop(m, args, 1, [p \in Pixels |-> [re |-> 0, im |-> 0]])
         IN  IF r.res # "ok" THEN Raise(r.res, dp, {})
             ELSE Ok(AddInto(dp, [p \in Pixels |->
                                    ((r.local[p].re * r.local[p].re)
                                     + (r.local[p].im * r.local[p].im)) \div 100]), {})

\* global_center_func(DP, *args, **kwargs): the global center goes in front
global_center_func(h, ms, m, xv, args, dp) ==
    LET all == <<kw_global_x0(h, ms, xv), kw_global_y0(h, ms, xv)>> \o args
    IN  IF m.kind = "ComplexOverlapKernelDiskLattice"
        THEN ComplexOverlapKernelDiskLattice_local_center_func(m, all, dp)
        ELSE KernelDiskLattice_local_center_func(m, all, dp)

\* the parameter values in the order of the params dict
Positional(h, m, xv) == [i \in 1 .. Len(m.params) |-> xv[h[m.params[i].ref].offset]]

\* m.func(DP, x, **kwargs)
Func(h, ms, m, xv, dp) ==
    CASE m.func = "_BaseModel" -> BaseModel_func(dp)
      [] m.func = "DCBackground" -> DCBackground_func(h, m, xv, dp)
      [] m.func = "GaussianBackground" -> GaussianBackground_func(h, m, xv, dp)
      [] m.func = "SyntheticDiskLattice" -> SyntheticDiskLattice_func(h, m, xv, dp)
      [] m.func = "WPFModelPrototype" -> WPFModelPrototype_func(dp)
      [] m.func = "global_center_func" -> global_center_func(h, ms, m, xv, <<xv>>, dp)

\* m.func(DP, *values, **kwargs), the values in the order of the params dict
FuncPositional(h, ms, m, xv, dp) ==
    global_center_func(h, ms, m, xv, Positional(h, m, xv), dp)

(***************************************************************************)
(* Jacobians.  j[c] is column c of J, one value per pixel.                 *)
(***************************************************************************)
\* J[:, col] += vec, and J[:, col] = vec
ColAdd(j, col, vec) == [j EXCEPT ![col] = [p \in Pixels |-> @[p] + vec[p]]]
ColSet(j, col, vec) == [j EXCEPT ![col] = vec]

BaseModel_jacobian(j) == j

\* a slip that would write the column after the component's own
DCBackground_jacobian_NextColumn(h, m, xv, j) ==
    ColSet(j, Off(h, m, Key("DC Level")) + 1, [p \in Pixels |-> 100])

DCBackground_jacobian(h, m, xv, j) ==
    ColSet(j, Off(h, m, Key("DC Level")), [p \in Pixels |-> 100])

\* a slip that would send every center derivative to the reserved columns
ReservedColumns(h, m) == <<0, 1>>

\* the columns the center derivatives of a component go to
CenterColumns(h, m) == <<Off(h, m, Key("x center")), Off(h, m, Key("y center"))>>

GaussianBackground_jacobian(h, m, xv, j) ==
    LET sigma == Val(h, m, xv, Key("sigma"))
        level == Val(h, m, xv, Key("intensity"))
        x0    == Val(h, m, xv, Key("x center"))
        y0    == Val(h, m, xv, Key("y center"))
        r     == get_distance(h, xv, Ref(m.params, Key("x center")),
                              Ref(m.params, Key("y center")))
        e     == Array([p \in Pixels |-> GaussExp(r[p], sigma)])
        cc    == CenterColumns(h, m)
        j1    == ColAdd(j, cc[1],
                        [p \in Pixels |-> (level * (xArray(p) - x0) * e[p]) \div (sigma * sigma)])
        j2    == ColAdd(j1, cc[2],
                        [p \in Pixels |-> (level * (yArray(p) - y0) * e[p]) \div (sigma * sigma)])
        j3    == ColAdd(j2, Off(h, m, Key("sigma")),
                        [p \in Pixels |-> (((level * e[p]) \div 100) * r[p] * r[p])
                                          \div ((sigma * sigma * sigma) \div 100)])
    IN  ColAdd(j3, Off(h, m, Key("intensity")), e)

\* 4 * ((mask * r_disk) - disk_radius) / disk_width: what jacobian passes to np.exp
TopExpArg(mask, r_disk, radius, width) ==
    EdgeArg(IF mask THEN r_disk ELSE 0, radius, width)

\* top_exp / (1 + top_exp)**2 to four decimals, top_exp the ratio e.n / e.d
TopOverSquare(e) == (10000 * e.n * e.d) \div ((e.d + e.n) * (e.d + e.n))

RECURSIVE DiskJacLoop(_, _, _, _, _)
DiskJacLoop(h, m, xv, i, j) ==
    IF i > Len(m.u_inds) THEN j
    ELSE LET u      == m.u_inds[i]
             v      == m.v_inds[i]
             x0     == Val(h, m, xv, Key("x center"))
             y0     == Val(h, m, xv, Key("y center"))
             xpos   == PeakX(x0, Val(h, m, xv, Key("ux")), Val(h, m, xv, Key("vx")), u, v)
             ypos   == PeakX(y0, Val(h, m, xv, Key("uy")), Val(h, m, xv, Key("vy")), u, v)
             radius == disk_radius_of(h, m, xv)
             width  == disk_width_of(h, m, xv)
             int    == Val(h, m, xv, IntensityKey(u, v))
             rc     == get_distance(h, xv, Ref(m.params, Key("x center")),
                                    Ref(m.params, Key("y center")))
             r      == Array([p \in Pixels |-> Max(50, rc[p])])
             r_disk == Array([p \in Pixels |-> Max(50, Dist(p, xpos, ypos))])
             mask   == Array([p \in Pixels |-> r_disk[p] < 2 * radius])
             \* mask * top_exp / (1 + top_exp)**2
             q      == Array([p \in Pixels |->
                          IF mask[p]
                          THEN TopOverSquare(Exp(TopExpArg(mask[p], r_disk[p], radius, width)))
                          ELSE 0])
             dx     == Array([p \in Pixels |->
                          (4 * int * (xArray(p) - xpos) * q[p]) \div (100 * width * r[p])])
             dy     == Array([p \in Pixels |->
                          (4 * int * (yArray(p) - ypos) * q[p]) \div (100 * width * r[p])])
             cc     == CenterColumns(h, m)
             j1     == ColAdd(j, cc[1], [p \in Pixels |-> (int * dx[p]) \div 100])
             j2     == ColAdd(j1, cc[2], [p \in Pixels |-> (int * dy[p]) \div 100])
             j3     == ColAdd(j2, Off(h, m, Key("ux")), [p \in Pixels |-> (int * u * dx[p]) \div 100])
             j4     == ColAdd(j3, Off(h, m, Key("uy")), [p \in Pixels |-> (int * u * dy[p]) \div 100])
             j5     == ColAdd(j4, Off(h, m, Key("vx")), [p \in Pixels |-> (int * v * dx[p]) \div 100])
             j6     == ColAdd(j5, Off(h, m, Key("vy")), [p \in Pixels |-> (int * v * dy[p]) \div 100])
             dI     == [p \in Pixels |->
                          IF mask[p]
                          THEN LET e == Exp(TopExpArg(mask[p], r_disk[p], radius, width))
                               IN  (100 * e.d) \div (e.d + e.n)
                          ELSE 0]
             j7     == ColAdd(j6, Off(h, m, IntensityKey(u, v)), dI)
             j8     == IF m.refine_radius
                       THEN ColAdd(j7, Off(h, m, Key("disk radius")),
                                   [p \in Pixels |-> (4 * int * q[p]) \div (100 * width)])
                       ELSE j7
             j9     == IF m.refine_width
                       THEN ColAdd(j8, Off(h, m, Key("edge width")),
                                   [p \in Pixels |-> (4 * int * q[p] * (r_disk[p] - radius))
                                                     \div (100 * width * width)])
                       ELSE j8
         IN  DiskJacLoop(h, m, xv, i + 1, j9)

SyntheticDiskLattice_jacobian(h, m, xv, j) == DiskJacLoop(h, m, xv, 1, j)

\* GaussianRing.global_center_jacobian: params["level"] is no key of the
\* dict, so the call raises before it writes a column
GaussianRing_global_center_jacobian(h, m, xv, j) ==
    IF HasKey(m.params, Key("level"))
    THEN [res |-> "NameError", J |-> j]
    ELSE [res |-> "KeyError", J |-> j]

\* m.jacobian(J, x, **kwargs), for a model that has the attribute
Jacobian(h, m, xv, j) ==
    CASE m.kind = "_BaseModel" -> BaseModel_jacobian(j)
      [] m.kind = "DCBackground" -> DCBackground_jacobian(h, m, xv, j)
      [] m.kind = "GaussianBackground" -> GaussianBackground_jacobian(h, m, xv, j)
      [] m.kind = "SyntheticDiskLattice" -> SyntheticDiskLattice_jacobian(h, m, xv, j)

(***************************************************************************)
(* Offset allocation by the fitting object: every distinct Parameter gets  *)
(* one offset, in the order in which the models' dicts first reach it.     *)
(* The coordinate model is registered first, so its two center Parameters  *)
(* take the reserved offsets 0 and 1.                                      *)
(***************************************************************************)
RECURSIVE Dedup(_, _)
Dedup(refs, seen) ==
    IF refs = <<>> THEN <<>>
    ELSE IF Head(refs) \in seen THEN Dedup(Tail(refs), seen)
    ELSE <<Head(refs)>> \o Dedup(Tail(refs), seen \cup {Head(refs)})

UniqueParams(ms) ==
    Dedup(Concat([i \in 1 .. Len(ms) |->
                    [k \in 1 .. Len(ms[i].params) |-> ms[i].params[k].ref]]), {})

AssignOffsets(h, ms) ==
    LET uniq == UniqueParams(ms)
    IN  [r \in 1 .. Len(h) |->
           IF \E k \in 1 .. Len(uniq) : uniq[k] = r
           THEN [h[r] EXCEPT !.offset = (CHOOSE k \in 1 .. Len(uniq) : uniq[k] = r) - 1]
           ELSE h[r]]

\* the vector the solver starts from: the initial values in offset order
InitialVector(h, ms) ==
    LET uniq == UniqueParams(ms)
    IN  [c \in 0 .. Len(uniq) - 1 |-> h[uniq[c + 1]].initial_value]

\* the same vector once the offsets are assigned: entry c is the initial
\* value of the Parameter whose offset is c
StartVector(h, n) ==
    [c \in 0 .. n - 1 |-> h[CHOOSE r \in 1 .. Len(h) : h[r].offset = c].initial_value]

ZeroJacobian(n) == [c \in 0 .. n - 1 |-> ZeroPattern]

(***************************************************************************)
(* Inputs                                                                  *)
(***************************************************************************)
InitCenters == {<<100, 100>>}

DCInputs == {100}

GaussianInputs ==
    {[sigma |-> 100, intensity |-> 200, global_center |-> g, x0 |-> 0, y0 |-> 100]
       : g \in BOOLEAN}

RingInputs ==
    {[radius |-> 100, sigma |-> 100, intensity |-> 100, global_center |-> g,
      x0 |-> 0, y0 |-> 0] : g \in BOOLEAN}

L0 == [ux |-> 100, uy |-> 0, vx |-> 0, vy |-> 100, disk_radius |-> 100, disk_width |-> 100,
       u_max |-> 1, v_max |-> 0, intensity_0 |-> 100, refine_radius |-> FALSE,
       refine_width |-> FALSE, global_center |-> TRUE, x0 |-> 0, y0 |-> 0,
       exclude_indices |-> <<>>, include_indices |-> None]

LRefined == [L0 EXCEPT !.refine_radius = TRUE, !.refine_width = TRUE, !.global_center = FALSE]

\* a sharp edge: disk_width = 0.05
LSharp == [L0 EXCEPT !.disk_width = 5]

LatticeInputs ==
    {L0, LRefined,
     [L0 EXCEPT !.ux = 200],
     [L0 EXCEPT !.u_max = 0, !.v_max = 1, !.exclude_indices = << <<0, 0>> >>],
     [L0 EXCEPT !.include_indices = Some(<< <<0, 0>>, <<0, 0>> >>)],
     [L0 EXCEPT !.include_indices = Some(<< <<2, 0>>, <<0, 0>> >>),
                !.exclude_indices = << <<0, 0>> >>]}

Kernel0 == [p \in Pixels |-> IF p = <<0, 0>> THEN 100 ELSE 0]

K0 == [ux |-> 100, uy |-> 0, vx |-> 0, vy |-> 100, u_max |-> 1, v_max |-> 0,
       intensity_0 |-> 100, exclude_indices |-> <<>>, probe_kernel |-> Kernel0]

KernelInputs ==
    {K0, [K0 EXCEPT !.ux = 200, !.v_max = 1, !.exclude_indices = << <<0, 1>> >>]}

\* the steps the solver tries: every entry of the starting vector moved by d
Deltas == {0, 100}

(***************************************************************************)
(* The state machine                                                       *)
(***************************************************************************)
Init ==
    /\ \E c \in InitCenters :
         LET b == BaseModel(<<>>, c[1], c[2])
         IN  heap = b.heap /\ models = <<b.model>> /\ built = <<[x0 |-> c[1], y0 |-> c[2]]>>
    /\ made = [a |-> Iter(<<>>), r |-> Parameter(Iter(<<>>))]
    /\ ready = FALSE
    /\ x = <<>>
    /\ DP = ZeroPattern
    /\ J = <<>>
    /\ called = {}

Building == ~ready /\ Len(models) < MaxModels + 1

Register(n, a) ==
    /\ heap' = n.heap
    /\ models' = Append(models, n.model)
    /\ built' = Append(built, a)
    /\ UNCHANGED <<made, ready, x, DP, J, called>>

ConstructDCBackground(inputs) ==
    /\ Building
    /\ \E v \in inputs : Register(NewDCBackground(heap, v), [background_value |-> v])

ConstructGaussianBackground(inputs) ==
    /\ Building
    /\ \E a \in inputs : Register(NewGaussianBackground(heap, models, a), a)

ConstructGaussianRing(inputs) ==
    /\ Building
    /\ \E a \in inputs : Register(NewGaussianRing(heap, models, a), a)

ConstructSyntheticDiskLattice(inputs) ==
    /\ Building
    /\ \E a \in inputs : Register(NewSyntheticDiskLattice(heap, models, a), a)

ConstructComplexOverlapKernelDiskLattice(inputs) ==
    /\ Building
    /\ \E a \in inputs : Register(NewComplexOverlapKernelDiskLattice(heap, models, a), a)

ConstructKernelDiskLattice(inputs) ==
    /\ Building
    /\ \E a \in inputs : Register(NewKernelDiskLattice(heap, models, a), a)

\* the fitting object's setup: offsets, the starting vector, zeroed buffers
Setup ==
    /\ ~ready
    /\ heap' = AssignOffsets(heap, models)
    /\ ready' = TRUE
    /\ x' = InitialVector(heap, models)
    /\ DP' = ZeroPattern
    /\ J' = ZeroJacobian(Len(UniqueParams(models)))
    /\ called' = {}
    /\ UNCHANGED <<models, built, made>>

\* the solver asks for a pattern or a Jacobian at a vector: the buffers are zeroed
Begin ==
    /\ ready
    /\ LET start == StartVector(heap, Cardinality(DOMAIN x))
       IN  \E d \in Deltas : x' = [c \in DOMAIN x |-> start[c] + d]
    /\ DP' = ZeroPattern
    /\ J' = ZeroJacobian(Cardinality(DOMAIN x))
    /\ called' = {}
    /\ UNCHANGED <<heap, models, built, made, ready>>

Did(op, i) == \E c \in called : c.op = op /\ c.i = i
JacobianOps == {"jacobian", "global_center_jacobian"}
InForwardPass == \A c \in called : c.op \notin JacobianOps
InJacobianPass == \A c \in called : c.op \in JacobianOps

\* a slip that would let a forward function write into the parameter vector
ForwardWritingX(op, i, r) ==
    /\ DP' = r.DP
    /\ called' = called \cup {[op |-> op, i |-> i, res |-> r.res]}
    /\ x' = [x EXCEPT ![0] = r.DP[<<0, 0>>]]
    /\ UNCHANGED <<heap, models, built, made, ready, J>>

Forward(op, i, r) ==
    /\ DP' = r.DP
    /\ called' = called \cup {[op |-> op, i |-> i, res |-> r.res]}
    /\ UNCHANGED <<heap, models, built, made, ready, x, J>>

CallFunc ==
    /\ ready /\ InForwardPass
    /\ \E i \in 1 .. Len(models) :
         /\ ~Did("func", i)
         /\ Forward("func", i, Func(heap, models, models[i], x, DP))

CallFuncPositional ==
    /\ ready /\ InForwardPass
    /\ \E i \in 1 .. Len(models) :
         /\ models[i].func = "global_center_func"
         /\ ~Did("positional", i)
         /\ Forward("positional", i, FuncPositional(heap, models, models[i], x, DP))

CallRingGlobalCenterFunc ==
    /\ ready /\ InForwardPass
    /\ \E i \in 1 .. Len(models) :
         /\ models[i].kind = "GaussianRing"
         /\ ~Did("global_center_func", i)
         /\ Forward("global_center_func", i,
                    GaussianRing_global_center_func(heap, models[i], x, DP))

CallJacobian ==
    /\ ready /\ InJacobianPass
    /\ \E i \in 1 .. Len(models) :
         /\ models[i].hasJacobian
         /\ ~Did("jacobian", i)
         /\ J' = Jacobian(heap, models[i], x, J)
         /\ called' = called \cup {[op |-> "jacobian", i |-> i, res |-> "ok"]}
         /\ UNCHANGED <<heap, models, built, made, ready, x, DP>>

CallRingGlobalCenterJacobian ==
    /\ ready /\ InJacobianPass
    /\ \E i \in 1 .. Len(models) :
         /\ models[i].kind = "GaussianRing"
         /\ ~Did("global_center_jacobian", i)
         /\ LET r == GaussianRing_global_center_jacobian(heap, models[i], x, J)
            IN  /\ J' = r.J
                /\ called' = called \cup {[op |-> "global_center_jacobian", i |-> i,
                                           res |-> r.res]}
         /\ UNCHANGED <<heap, models, built, made, ready, x, DP>>

\* construction with every input, and the setup
NextBuild ==
    \/ ConstructDCBackground(DCInputs)
    \/ ConstructGaussianBackground(GaussianInputs)
    \/ ConstructGaussianRing(RingInputs)
    \/ ConstructSyntheticDiskLattice(LatticeInputs)
    \/ ConstructComplexOverlapKernelDiskLattice(KernelInputs)
    \/ ConstructKernelDiskLattice(KernelInputs)
    \/ Setup

SpecBuild == Init /\ [][NextBuild]_vars

\* construction, setup and evaluation
Next ==
    \/ ConstructDCBackground(DCInputs)
    \/ ConstructGaussianBackground(GaussianInputs)
    \/ ConstructGaussianRing({a \in RingInputs : a.global_center})
    \/ ConstructSyntheticDiskLattice({L0, LRefined})
    \/ ConstructComplexOverlapKernelDiskLattice({K0})
    \/ ConstructKernelDiskLattice({K0})
    \/ Setup
    \/ Begin
    \/ CallFunc
    \/ CallFuncPositional
    \/ CallRingGlobalCenterFunc
    \/ CallJacobian
    \/ CallRingGlobalCenterJacobian

Spec == Init /\ [][Next]_vars

\* disk lattices alone, with soft and sharp edges
NextDisk ==
    \/ ConstructSyntheticDiskLattice({L0, LRefined, LSharp})
    \/ Setup
    \/ Begin
    \/ CallFunc
    \/ CallJacobian

SpecDisk == Init /\ [][NextDisk]_vars

\* stand-alone Parameter(...) calls
ParameterValues == {-100, 0, 100, 200}
\* the forms of the call, over the numbers in V
ArgsOver(V) ==
    {Iter(<<v, lo, hi>>) : v \in V, lo \in V, hi \in V}
    \cup {Iter(<<v, t>>) : v \in V, t \in V}
    \cup {Iter(<<v>>) : v \in V}
    \cup {[iter |-> FALSE, v |-> v, lb |-> lo, ub |-> hi, items |-> <<>>]
            : v \in V,
              lo \in {None} \cup {Some(b) : b \in V},
              hi \in {None} \cup {Some(b) : b \in V}}

ParameterArgs == ArgsOver(ParameterValues)

ConstructParameter(inputs) ==
    /\ \E a \in inputs : made' = [a |-> a, r |-> Parameter(a)]
    /\ UNCHANGED <<heap, models, built, ready, x, DP, J, called>>

SpecParameter == Init /\ [][ConstructParameter(ParameterArgs)]_vars

\* stand-alone Parameter(...) calls and the model constructors, before the setup
NextConstruct ==
    \/ ConstructParameter(ArgsOver({100, 200}))
    \/ ConstructDCBackground(DCInputs)
    \/ ConstructGaussianBackground({a \in GaussianInputs : ~a.global_center})
    \/ ConstructGaussianRing({a \in RingInputs : a.global_center})
    \/ ConstructSyntheticDiskLattice({LRefined})
    \/ ConstructComplexOverlapKernelDiskLattice({K0})
    \/ ConstructKernelDiskLattice({K0})

SpecConstruct == Init /\ [][NextConstruct]_vars

(***************************************************************************)
(* Properties of construction                                              *)
(***************************************************************************)
Components == 2 .. Len(models)
HasCenter(i) == models[i].kind \in {"GaussianBackground", "GaussianRing", "SyntheticDiskLattice"}
IsLattice(i) == models[i].kind \in {"SyntheticDiskLattice", "ComplexOverlapKernelDiskLattice",
                                    "KernelDiskLattice"}
CenterKeys == {Key("x center"), Key("y center")}

\* C1: a component built with global_center = true holds the coordinate
\* model's own center Parameters, so it reads their one offset, initial
\* value and bounds, before and after the offsets are assigned; built with
\* global_center = false it holds center Parameters that no other model holds.
C1_SharedCenter ==
    \A i \in Components : HasCenter(i) =>
        IF built[i].global_center
        THEN \A k \in CenterKeys :
               /\ Ref(models[i].params, k) = Ref(coordinate_model(models).params, k)
               /\ Off(heap, models[i], k) = Off(heap, coordinate_model(models), k)
               /\ heap[Ref(models[i].params, k)].initial_value
                    = heap[Ref(coordinate_model(models).params, k)].initial_value
               /\ heap[Ref(models[i].params, k)].lower_bound
                    = heap[Ref(coordinate_model(models).params, k)].lower_bound
               /\ heap[Ref(models[i].params, k)].upper_bound
                    = heap[Ref(coordinate_model(models).params, k)].upper_bound
        ELSE /\ Ref(models[i].params, Key("x center")) # Ref(models[i].params, Key("y center"))
             /\ \A k \in CenterKeys : \A j \in 1 .. Len(models) :
                  j # i => Ref(models[i].params, k) \notin Refs(models[j].params)

\* two components share the global center, whose x offset has been assigned
C1_Witness ==
    /\ ready
    /\ \E i \in Components : \E j \in Components :
         /\ i # j /\ HasCenter(i) /\ HasCenter(j)
         /\ models[i].kind = "GaussianRing" /\ models[j].kind = "SyntheticDiskLattice"
         /\ built[i].global_center /\ built[j].global_center
         /\ Off(heap, models[i], Key("x center")) = 0
         /\ Off(heap, models[j], Key("y center")) = 1

\* C5: hasJacobian is true for the constant background, the Gaussian
\* background, the Gaussian ring and the disk lattice, false for both
\* kernel lattices.
C5_HasJacobian ==
    \A i \in Components :
        models[i].hasJacobian
          = (models[i].kind \in {"DCBackground", "GaussianBackground", "GaussianRing",
                                 "SyntheticDiskLattice"})

\* the candidate pairs of lattice i, and its retained pairs
Retained(i) == [k \in 1 .. Len(models[i].u_inds) |-> <<models[i].u_inds[k], models[i].v_inds[k]>>]
Candidates(i) ==
    IF models[i].kind = "SyntheticDiskLattice" /\ built[i].include_indices # None
    THEN built[i].include_indices[1]
    ELSE UVGrid(built[i].u_max, built[i].v_max)

\* the predicted center of peak pr of lattice i, from the initial values
InitialOf(i, k) == heap[Ref(models[i].params, k)].initial_value
PredictedX(i, pr) ==
    (IF models[i].kind = "SyntheticDiskLattice" THEN InitialOf(i, Key("x center"))
     ELSE global_x0(heap, models))
    + pr[1] * InitialOf(i, Key("ux")) + pr[2] * InitialOf(i, Key("vx"))
PredictedY(i, pr) ==
    (IF models[i].kind = "SyntheticDiskLattice" THEN InitialOf(i, Key("y center"))
     ELSE global_y0(heap, models))
    + pr[1] * InitialOf(i, Key("uy")) + pr[2] * InitialOf(i, Key("vy"))
Dropped(i, pr) ==
    \/ InList(pr, built[i].exclude_indices)
    \/ PredictedX(i, pr) < 0 \/ PredictedX(i, pr) > 100 * Q_Nx
    \/ PredictedY(i, pr) < 0 \/ PredictedY(i, pr) > 100 * Q_Ny

PeakKeys(i) == {k \in 1 .. Len(models[i].params) :
                  models[i].params[k].key.n \in {"Intensity", "Phase"}}

\* C7: no retained pair is excluded or predicted outside the pattern, no
\* Intensity or Phase Parameter exists for a dropped pair, and every
\* candidate pair that is inside and not excluded is retained.
C7_Pruned ==
    \A i \in Components : IsLattice(i) =>
        /\ \A k \in 1 .. Len(Retained(i)) : ~Dropped(i, Retained(i)[k])
        /\ \A k \in PeakKeys(i) :
             ~Dropped(i, <<models[i].params[k].key.u, models[i].params[k].key.v>>)
        /\ \A k \in 1 .. Len(Candidates(i)) :
             ~Dropped(i, Candidates(i)[k]) => InList(Candidates(i)[k], Retained(i))

\* the Intensity entries of lattice i, in insertion order
IntensityEntries(i) == SelectSeq(models[i].params, LAMBDA e : e.key.n = "Intensity")
FixedCount(i) ==
    IF models[i].kind = "SyntheticDiskLattice"
    THEN 6 + (IF models[i].refine_radius THEN 1 ELSE 0) + (IF models[i].refine_width THEN 1 ELSE 0)
    ELSE 4

\* C8: as many Intensity Parameters as retained pairs, the k-th one named
\* for the k-th retained pair, a coherent lattice's Phase right after its
\* Intensity, and nParams the count of all of them.
C8_LockStep ==
    \A i \in Components : IsLattice(i) =>
        /\ Len(IntensityEntries(i)) = Len(Retained(i))
        /\ \A k \in 1 .. Len(IntensityEntries(i)) :
             k <= Len(Retained(i)) =>
               IntensityEntries(i)[k].key = IntensityKey(Retained(i)[k][1], Retained(i)[k][2])
        /\ models[i].kind = "ComplexOverlapKernelDiskLattice" =>
             \A k \in 1 .. Len(models[i].params) :
               models[i].params[k].key.n = "Intensity" =>
                 /\ k + 1 <= Len(models[i].params)
                 /\ models[i].params[k + 1].key
                      = PhaseKey(models[i].params[k].key.u, models[i].params[k].key.v)
        /\ models[i].nParams
             = FixedCount(i) + Len(Retained(i))
                 * (IF models[i].kind = "ComplexOverlapKernelDiskLattice" THEN 2 ELSE 1)

PhaseEntries(i, pr) ==
    {k \in 1 .. Len(models[i].params) : models[i].params[k].key = PhaseKey(pr[1], pr[2])}

\* C9: in a coherent kernel lattice every retained peak has exactly one
\* Phase Parameter; the (0,0) peak's is (0, 0, 0), any other peak's has
\* bounds that are not both zero.
C9_PhaseClamp ==
    \A i \in Components : models[i].kind = "ComplexOverlapKernelDiskLattice" =>
        \A k \in 1 .. Len(Retained(i)) :
            /\ Cardinality(PhaseEntries(i, Retained(i)[k])) = 1
            /\ LET ph == heap[Ref(models[i].params, PhaseKey(Retained(i)[k][1], Retained(i)[k][2]))]
               IN  IF Retained(i)[k] = <<0, 0>>
                   THEN ph.initial_value = 0 /\ ph.lower_bound = 0 /\ ph.upper_bound = 0
                   ELSE ~(ph.lower_bound = 0 /\ ph.upper_bound = 0)

\* a coherent lattice that retains the direct beam and another peak
C9_Witness ==
    \E i \in Components :
        /\ models[i].kind = "ComplexOverlapKernelDiskLattice"
        /\ InList(<<0, 0>>, Retained(i))
        /\ InList(<<1, 0>>, Retained(i))
        /\ heap[Ref(models[i].params, PhaseKey(0, 0))].upper_bound = 0
        /\ heap[Ref(models[i].params, PhaseKey(1, 0))].upper_bound = Pi

\* the bounds the call asks for are inverted
Inverted(a) ==
    IF a.iter
    THEN \/ Len(a.items) = 3 /\ a.items[2] > a.items[3]
         \/ Len(a.items) = 2 /\ a.items[2] < 0
    ELSE a.lb # None /\ a.ub # None /\ a.lb[1] > a.ub[1]

\* C10: a Parameter(...) call whose lower bound exceeds its upper bound
\* fails and yields no Parameter object.
C10_RejectsInvertedBounds == Inverted(made.a) => ~made.r.ok

\* the (initial value, lower bound, upper bound) the call a asks for
Asked(a) ==
    IF a.iter
    THEN IF Len(a.items) = 2
         THEN <<a.items[1], a.items[1] - a.items[2], a.items[1] + a.items[2]>>
         ELSE a.items
    ELSE <<a.v, IF a.lb = None THEN NegInf ELSE a.lb[1],
                IF a.ub = None THEN PosInf ELSE a.ub[1]>>

\* C11: a Parameter built from a (value, tolerance) pair, a (value, lower,
\* upper) triple, three separate arguments or a value alone has that value
\* and the bounds value - tolerance and value + tolerance, or the bounds
\* given, or minus and plus infinity; its offset is the unassigned
\* sentinel; and every Parameter of every model built so far still has the
\* unassigned sentinel for its offset.
C11_Forms ==
    /\ made.r.ok =>
          /\ made.r.p.initial_value = Asked(made.a)[1]
          /\ made.r.p.lower_bound = Asked(made.a)[2]
          /\ made.r.p.upper_bound = Asked(made.a)[3]
          /\ made.r.p.offset = NaN
    /\ ~ready => \A r \in 1 .. Len(heap) : heap[r].offset = NaN

\* a Parameter made from a pair with a tolerance, after two components were
\* constructed, one of them a lattice
C11_Witness ==
    /\ made.r.ok /\ made.a.iter /\ Len(made.a.items) = 2
    /\ made.a.items[1] = 100 /\ made.a.items[2] = 200
    /\ made.r.p.lower_bound = -100 /\ made.r.p.upper_bound = 300
    /\ Len(models) = 3 /\ \E i \in Components : IsLattice(i)
    /\ Len(heap) > 4

(***************************************************************************)
(* Properties of evaluation                                                *)
(***************************************************************************)
Plus(a, b) == [p \in Pixels |-> a[p] + b[p]]

\* what the forward call c adds to a zeroed pattern
Contribution(c) ==
    CASE c.op = "func" -> Func(heap, models, models[c.i], x, ZeroPattern).DP
      [] c.op = "positional" -> FuncPositional(heap, models, models[c.i], x, ZeroPattern).DP
      [] c.op = "global_center_func" ->
             GaussianRing_global_center_func(heap, models[c.i], x, ZeroPattern).DP

RECURSIVE SumOfContributions(_)
SumOfContributions(S) ==
    IF S = {} THEN ZeroPattern
    ELSE LET c == CHOOSE e \in S : TRUE
         IN  Plus(Contribution(c), SumOfContributions(S \ {c}))

\* C2: whatever forward calls were made since the pattern was zeroed, and in
\* whatever order, the pattern is the pixel-wise sum of what each call adds
\* to a zeroed pattern: every call adds a contribution that does not depend
\* on the pattern it is given, and the pattern of a union of components is
\* the sum of the patterns of its parts.
C2_Additive == DP = SumOfContributions({c \in called : c.op \notin JacobianOps})

\* a disk lattice and a coherent kernel lattice have both contributed
C2_Witness ==
    \E c \in called : \E d \in called :
        /\ c.op = "func" /\ models[c.i].kind = "SyntheticDiskLattice"
        /\ d.op = "positional" /\ models[d.i].kind = "ComplexOverlapKernelDiskLattice"
        /\ d.res = "ok"
        /\ Contribution(c) # ZeroPattern /\ Contribution(d) # ZeroPattern
        /\ DP = Plus(Contribution(c), Contribution(d))
        /\ DP # Contribution(c) /\ DP # Contribution(d)

JacobianCalls == {c \in called : c.op = "jacobian"}

\* C3: a call of a component's Jacobian function changes no column of the
\* Jacobian other than column 0, column 1 and the columns at the offsets of
\* that component's own Parameters.
C3_WriteSet ==
    [][\A c \in (called' \ called) : c.op = "jacobian" =>
         \A col \in DOMAIN J :
           J'[col] # J[col] => col \in ({0, 1} \cup OwnOffsets(heap, models[c.i]))]_vars

\* a refining disk lattice has written its own columns, next to another
\* component's columns that are still zero
C3_Witness ==
    \E c \in JacobianCalls : \E j \in Components :
        /\ models[c.i].kind = "SyntheticDiskLattice" /\ models[c.i].refine_width
        /\ J[Off(heap, models[c.i], Key("edge width"))] # ZeroPattern
        /\ J[Off(heap, models[c.i], IntensityKey(0, 0))] # ZeroPattern
        /\ j # c.i /\ ~Did("jacobian", j)
        /\ \E r \in Refs(models[j].params) : heap[r].offset > 1 /\ J[heap[r].offset] = ZeroPattern

\* what the Jacobian function of component i writes into a zeroed Jacobian
FromZero(i) == Jacobian(heap, models[i], x, ZeroJacobian(Len(UniqueParams(models))))
CenterDependent(i) == models[i].kind \in {"GaussianBackground", "SyntheticDiskLattice"}

RECURSIVE SumOfColumn(_, _)
SumOfColumn(S, col) ==
    IF S = {} THEN ZeroPattern
    ELSE LET c == CHOOSE e \in S : TRUE
         IN  Plus(FromZero(c.i)[col], SumOfColumn(S \ {c}, col))

\* C4 as claimed: the center partial derivatives that a center-dependent
\* component computes are added into columns 0 and 1, whether its center
\* is the global one or its own.
C4_ReservedColumns ==
    \A i \in Components :
        (CenterDependent(i) /\ called = {[op |-> "jacobian", i |-> i, res |-> "ok"]}) =>
            /\ J[0] = FromZero(i)[Off(heap, models[i], Key("x center"))]
            /\ J[1] = FromZero(i)[Off(heap, models[i], Key("y center"))]

\* C4 as amended: the center partial derivatives go to the columns of the
\* component's own x center and y center Parameters.  Columns 0 and 1
\* hold the sum of what the called components with global_center = true
\* add there; a component with global_center = false leaves them alone and
\* adds into its own center columns.
C4_CenterColumns ==
    LET shared == {c \in JacobianCalls : CenterDependent(c.i) /\ built[c.i].global_center}
        local  == {c \in JacobianCalls : CenterDependent(c.i) /\ ~built[c.i].global_center}
    IN  ready =>
          /\ J[0] = SumOfColumn(shared, 0)
          /\ J[1] = SumOfColumn(shared, 1)
          /\ \A c \in local : \A k \in CenterKeys :
               /\ Off(heap, models[c.i], k) \notin {0, 1}
               /\ J[Off(heap, models[c.i], k)] = FromZero(c.i)[Off(heap, models[c.i], k)]

\* a component with its own center has added its center partials into its
\* own column and left column 0 zeroed, which a component with the global
\* center, not called yet, would add into
C4_Witness ==
    \E c \in JacobianCalls : \E d \in Components :
        /\ CenterDependent(c.i) /\ ~built[c.i].global_center
        /\ J[Off(heap, models[c.i], Key("x center"))] # ZeroPattern
        /\ J[0] = ZeroPattern
        /\ CenterDependent(d) /\ built[d].global_center /\ ~Did("jacobian", d)
        /\ FromZero(d)[0] # ZeroPattern

\* C6: a forward call func(pattern, flat_parameters, context) of a component
\* whose Parameters all have offsets completes without error.
C6_FuncCompletes == \A c \in called : c.op = "func" => c.res = "ok"

(***************************************************************************)
(* The derivative of a component's forward contribution, column by column  *)
(***************************************************************************)
\* two-decimal numbers that agree up to rounding
Close(a, b) == Abs(a - b) <= 3

\* d/d(DC Level) of the constant background
DCBackgroundDerivative(i, j) ==
    ColAdd(j, Off(heap, models[i], Key("DC Level")), [p \in Pixels |-> 100])

\* the derivatives of level * exp(-r^2 / (2 sigma^2)), r the distance from
\* the component's center
GaussianBackgroundDerivative(i, j) ==
    LET m     == models[i]
        sigma == Val(heap, m, x, Key("sigma"))
        level == Val(heap, m, x, Key("intensity"))
        x0    == Val(heap, m, x, Key("x center"))
        y0    == Val(heap, m, x, Key("y center"))
        r     == Array([p \in Pixels |-> Dist(p, x0, y0)])
        e     == Array([p \in Pixels |-> GaussExp(r[p], sigma)])
        j1    == ColAdd(j, Off(heap, m, Key("intensity")), e)
        j2    == ColAdd(j1, Off(heap, m, Key("sigma")),
                        [p \in Pixels |-> (((level * e[p]) \div 100) * r[p] * r[p])
                                          \div ((sigma * sigma * sigma) \div 100)])
        j3    == ColAdd(j2, Off(heap, m, Key("x center")),
                        [p \in Pixels |-> (level * (xArray(p) - x0) * e[p]) \div (sigma * sigma)])
    IN  ColAdd(j3, Off(heap, m, Key("y center")),
               [p \in Pixels |-> (level * (yArray(p) - y0) * e[p]) \div (sigma * sigma)])

\* the derivatives of the sum over the peaks k.. of
\* intensity / (1 + exp(min(4 (r - radius) / width, 20))), r the distance
\* from the peak: the slope of the edge is
\* s = 4 intensity e / ((1 + e)^2 width), zero where the exponent is clamped,
\* and the peak moves with the center and the lattice vectors
RECURSIVE DiskLatticeDerivative(_, _, _)
DiskLatticeDerivative(i, k, j) ==
    IF k > Len(models[i].u_inds) THEN j
    ELSE LET m      == models[i]
             u      == m.u_inds[k]
             v      == m.v_inds[k]
             xpos   == PeakX(Val(heap, m, x, Key("x center")), Val(heap, m, x, Key("ux")),
                             Val(heap, m, x, Key("vx")), u, v)
             ypos   == PeakX(Val(heap, m, x, Key("y center")), Val(heap, m, x, Key("uy")),
                             Val(heap, m, x, Key("vy")), u, v)
             radius == disk_radius_of(heap, m, x)
             width  == disk_width_of(heap, m, x)
             int    == Val(heap, m, x, IntensityKey(u, v))
             r      == Array([p \in Pixels |-> Max(50, Dist(p, xpos, ypos))])
             arg    == Array([p \in Pixels |-> EdgeArg(r[p], radius, width)])
             q      == Array([p \in Pixels |->
                                IF arg[p] > 2000 THEN 0 ELSE TopOverSquare(Exp(arg[p]))])
             dx     == Array([p \in Pixels |->
                                (4 * int * (xArray(p) - xpos) * q[p]) \div (100 * width * r[p])])
             dy     == Array([p \in Pixels |->
                                (4 * int * (yArray(p) - ypos) * q[p]) \div (100 * width * r[p])])
             j1     == ColAdd(j, Off(heap, m, Key("x center")), dx)
             j2     == ColAdd(j1, Off(heap, m, Key("y center")), dy)
             j3     == ColAdd(j2, Off(heap, m, Key("ux")), [p \in Pixels |-> u * dx[p]])
             j4     == ColAdd(j3, Off(heap, m, Key("uy")), [p \in Pixels |-> u * dy[p]])
             j5     == ColAdd(j4, Off(heap, m, Key("vx")), [p \in Pixels |-> v * dx[p]])
             j6     == ColAdd(j5, Off(heap, m, Key("vy")), [p \in Pixels |-> v * dy[p]])
             j7     == ColAdd(j6, Off(heap, m, IntensityKey(u, v)),
                              [p \in Pixels |-> Logistic(100, arg[p])])
             j8     == IF m.refine_radius
                       THEN ColAdd(j7, Off(heap, m, Key("disk radius")),
                                   [p \in Pixels |-> (4 * int * q[p]) \div (100 * width)])
                       ELSE j7
             j9     == IF m.refine_width
                       THEN ColAdd(j8, Off(heap, m, Key("edge width")),
                                   [p \in Pixels |-> (4 * int * q[p] * (r[p] - radius))
                                                     \div (100 * width * width)])
                       ELSE j8
         IN  DiskLatticeDerivative(i, k + 1, j9)

Derivative(i) ==
    LET zero == ZeroJacobian(Cardinality(DOMAIN x))
    IN  CASE models[i].kind = "DCBackground" -> DCBackgroundDerivative(i, zero)
          [] models[i].kind = "GaussianBackground" -> GaussianBackgroundDerivative(i, zero)
          [] models[i].kind = "SyntheticDiskLattice" -> DiskLatticeDerivative(i, 1, zero)
          [] OTHER -> zero

\* the columns of J agree with the derivative of component i's contribution
Agrees(i) ==
    \A col \in DOMAIN J : \A p \in Pixels : Close(J[col][p], Derivative(i)[col][p])

\* C12: after the Jacobian function of one component alone has been called
\* on a zeroed Jacobian, every column holds the derivative of that
\* component's forward contribution with respect to the Parameter of that
\* column; and the Gaussian ring's Jacobian function returns its columns.
C12_JacobianIsDerivative ==
    /\ \A c \in JacobianCalls : called = {c} => Agrees(c.i)
    /\ \A c \in called : c.op = "global_center_jacobian" => c.res = "ok"

(***************************************************************************)
(* The arguments of the exponential in the disk lattice                    *)
(***************************************************************************)
\* the distance of pixel p from peak k of lattice i, at the vector x
PeakDistance(i, k, p) ==
    LET m == models[i]
    IN  Dist(p, PeakX(Val(heap, m, x, Key("x center")), Val(heap, m, x, Key("ux")),
                      Val(heap, m, x, Key("vx")), m.u_inds[k], m.v_inds[k]),
                PeakX(Val(heap, m, x, Key("y center")), Val(heap, m, x, Key("uy")),
                      Val(heap, m, x, Key("vy")), m.u_inds[k], m.v_inds[k]))

\* what func and jacobian of lattice i pass to np.exp for peak k and pixel p
FuncExpArg(i, k, p) ==
    ClampedArg(EdgeArg(PeakDistance(i, k, p), disk_radius_of(heap, models[i], x),
                       disk_width_of(heap, models[i], x)))
JacobianExpArg(i, k, p) ==
    LET r_disk == Max(50, PeakDistance(i, k, p))
        radius == disk_radius_of(heap, models[i], x)
    IN  TopExpArg(r_disk < 2 * radius, r_disk, radius, disk_width_of(heap, models[i], x))

\* C13: in every call of a disk lattice's func or jacobian, for every
\* retained peak and every pixel, the argument passed to the exponential
\* function is at most 20.
C13_ExponentClamped ==
    \A c \in called : models[c.i].kind = "SyntheticDiskLattice" =>
        \A k \in 1 .. Len(models[c.i].u_inds) : \A p \in Pixels :
            /\ c.op = "func" => FuncExpArg(c.i, k, p) <= 2000
            /\ c.op = "jacobian" => JacobianExpArg(c.i, k, p) <= 2000

(***************************************************************************)
(* Statelessness of evaluation                                             *)
(***************************************************************************)
\* C14: a forward or Jacobian call leaves the model objects, their
\* Parameters and the flat parameter vector as they were; and as long as
\* the vector stays the same, whatever calls are made and however often the
\* buffers are zeroed again, every component gives the same pattern and the
\* same Jacobian from zeroed buffers.
C14_Stateless ==
    [][/\ (called' \ called # {}) => (heap' = heap /\ models' = models /\ x' = x)
       /\ (ready /\ x' = x) =>
            \/ heap' = heap /\ models' = models
            \/ \A i \in 1 .. Len(models) :
                 /\ Func(heap', models', models'[i], x', ZeroPattern)
                      = Func(heap, models, models[i], x, ZeroPattern)
                 /\ models[i].hasJacobian =>
                      Jacobian(heap', models'[i], x', ZeroJacobian(Cardinality(DOMAIN x')))
                        = Jacobian(heap, models[i], x, ZeroJacobian(Cardinality(DOMAIN x)))]_vars

\* the solver has moved away from the starting vector, and a disk lattice
\* and another component have since added to the pattern
C14_Witness ==
    /\ ready
    /\ x # StartVector(heap, Cardinality(DOMAIN x))
    /\ \E c \in called : \E d \in called :
         /\ c # d /\ c.res = "ok" /\ d.res = "ok"
         /\ c.op = "func" /\ models[c.i].kind = "SyntheticDiskLattice"
         /\ d.i \in Components
         /\ Contribution(c) # ZeroPattern /\ Contribution(d) # ZeroPattern
         /\ DP = Plus(Contribution(c), Contribution(d))

====
